---- MODULE Spec2Model ----
(***************************************************************************)
(* json-tools: the structural diff of the Diff page (compareJson), the     *)
(* RFC 7396 merge (applyMergePatch), the RFC 6902 page (applyJsonPatch)    *)
(* and the AI assistant page (callOpenAI and its callers).                 *)
(***************************************************************************)
EXTENDS Integers, Sequences, FiniteSets, TLC

VARIABLES
    \* compareJson called on two parsed documents, and on the two swapped
    leftParsed, rightParsed, results, reverse, dpc,
    \* applyMergePatch called on a parsed target and a parsed patch, and
    \* what the target and the patch hold once the call has returned
    doc, mergePatch, merged, mpc, docAfter, patchAfter,
    \* applyMergePatch called once more, on its result and the same patch
    mergedAgain,
    \* JsonPatch page: the useState cells of the component
    jsonInput, patchInput, output, result,
    \* AiAssistant page: its useState cells, the requests awaiting a response,
    \* and everything that was put on the wire to a server
    apiKey, prompt, aiJson, mode, aiOutput, aiError, loading, pending, wire,
    \* Diff page: the useState cells of the component, and the texts and the
    \* outcome of the most recent compare
    left, right, diffResults, diffError, lastCompare,
    \* useLargeFile and the JSON worker: the promises processLargeJson has
    \* returned, the closure installed as worker.onmessage, the hook's
    \* useState cells, the two message queues, what the worker's handler has
    \* still to post for the message it is running on, and all it has posted
    promises, onmessage, hookState, progress, stats,
    toWorker, toMain, taken, job, posted,
    \* useRecentTools: the item of localStorage, the clock, and the pathnames
    \* visited so far
    stored, now, visited

diffVars == <<leftParsed, rightParsed, results, reverse, dpc>>
mergeVars == <<doc, mergePatch, merged, mpc, docAfter, patchAfter, mergedAgain>>
patchVars == <<jsonInput, patchInput, output, result>>
aiVars == <<apiKey, prompt, aiJson, mode, aiOutput, aiError, loading, pending, wire>>
pageVars == <<left, right, diffResults, diffError, lastCompare>>
workerVars ==
    <<promises, onmessage, hookState, progress, stats,
      toWorker, toMain, taken, job, posted>>
recentVars == <<stored, now, visited>>
vars == <<diffVars, mergeVars, patchVars, aiVars, pageVars, workerVars, recentVars>>

(***************************************************************************)
(* Bounds of the model.                                                    *)
(***************************************************************************)
\* longest array, and most keys of an object, of the flat and the nested
\* documents drawn
MaxLen == 2
\* longest operation list of a JSON Patch document
MaxOps == 2
\* most requests to the OpenAI API that are sent in one run
MaxRequests == 2
\* most calls of processLargeJson in one run
MaxCalls == 2
\* most page navigations in one run
MaxVisits == 6

(***************************************************************************)
(* JavaScript values, as JSON.parse builds them.  A value is a tuple whose *)
(* first element is its tag.  An object is the sequence of its own         *)
(* <<key, value>> properties in insertion order, keys unique (no key of    *)
(* the documents drawn is an integer, which JavaScript would order first). *)
(***************************************************************************)
JNull == <<"null">>
JBool(b) == <<"bool", b>>
JNum(n) == <<"num", n>>
JStr(s) == <<"str", s>>
JArr(elems) == <<"arr", elems>>
JObj(props) == <<"obj", props>>
\* a property that is not there reads as undefined
JUndefined == <<"undefined">>
\* a built-in function found on a prototype (Object, Array)
JFun(name) == <<"fun", name>>

Tag(v) == v[1]
IsArray(v) == Tag(v) = "arr"
IsPlainObject(v) == Tag(v) = "obj"
Elems(v) == v[2]
Props(v) == v[2]

\* typeof
TypeOf(v) ==
    CASE Tag(v) = "null" -> "object"
      [] Tag(v) = "arr" -> "object"
      [] Tag(v) = "obj" -> "object"
      [] Tag(v) = "bool" -> "boolean"
      [] Tag(v) = "num" -> "number"
      [] Tag(v) = "str" -> "string"
      [] Tag(v) = "fun" -> "function"
      [] OTHER -> "undefined"

\* a === b for values of two separately parsed documents: primitives (and
\* the shared built-ins) are compared by value, while an array or an object
\* of one document is never the same reference as one of the other
StrictEquals(a, b) ==
    IF Tag(a) \in {"arr", "obj"} \/ Tag(b) \in {"arr", "obj"}
    THEN FALSE
    ELSE a = b

\* the names every object inherits from Object.prototype
ObjectProtoKeys ==
    {"constructor", "toString", "valueOf", "hasOwnProperty", "isPrototypeOf",
     "propertyIsEnumerable", "toLocaleString"}

\* mutant of Digits: the index counted from one
Digits_fromOne(i) == ToString(i + 1)

\* the decimal string of an array index, as a template literal prints it
Digits(i) == ToString(i)

RECURSIVE KeysOfProps(_)
KeysOfProps(props) ==
    IF props = <<>> THEN <<>>
    ELSE <<props[1][1]>> \o KeysOfProps(Tail(props))

\* Object.keys(v): an array's indices as strings, an object's own keys
ObjectKeys(v) ==
    IF IsArray(v) THEN [i \in 1..Len(Elems(v)) |-> Digits(i - 1)]
    ELSE KeysOfProps(Props(v))

SeqToSet(s) == {s[i] : i \in 1..Len(s)}

HasOwn(v, key) == key \in SeqToSet(ObjectKeys(v))

\* v[key]
Get(v, key) ==
    IF HasOwn(v, key)
    THEN LET i == CHOOSE j \in 1..Len(ObjectKeys(v)) : ObjectKeys(v)[j] = key
         IN  IF IsArray(v) THEN Elems(v)[i] ELSE Props(v)[i][2]
    ELSE IF IsArray(v) /\ key = "length" THEN JNum(Len(Elems(v)))
    ELSE IF key \in ObjectProtoKeys
         THEN JFun(IF IsArray(v) /\ key \in {"constructor", "toString", "toLocaleString"}
                   THEN "Array." \o key ELSE "Object." \o key)
    ELSE JUndefined

\* the truthiness of a value, as a condition tests it
Truthy(v) ==
    CASE Tag(v) = "null" -> FALSE
      [] Tag(v) = "undefined" -> FALSE
      [] Tag(v) = "bool" -> v[2]
      [] Tag(v) = "num" -> v[2] # 0
      [] Tag(v) = "str" -> v[2] # ""
      [] OTHER -> TRUE

\* mutant of In: the presence test written as a truthiness test, !obj[key]
In_truthy(key, v) == Truthy(Get(v, key))

\* key in v: own properties, an array's length, and what Object.prototype
\* gives (of the names Array.prototype adds, none is listed)
In(key, v) ==
    \/ HasOwn(v, key)
    \/ key \in ObjectProtoKeys
    \/ IsArray(v) /\ key = "length"

(***************************************************************************)
(* compareJson (Formatter.tsx, the Diff page): a DiffResult is a record    *)
(* with the fields path and type, and oldValue or newValue where the code  *)
(* sets them.                                                              *)
(***************************************************************************)
\* mutant of PathOrRoot: the path pushed as it is
PathOrRoot_asIs(path) == path

\* path || 'root'
PathOrRoot(path) == IF path = "" THEN "root" ELSE path

\* path ? `${path}[${i}]` : `[${i}]`
ItemPath(path, i) ==
    IF path # "" THEN path \o "[" \o Digits(i) \o "]" ELSE "[" \o Digits(i) \o "]"

\* path ? `${path}.${key}` : key
KeyPath(path, key) == IF path # "" THEN path \o "." \o key ELSE key

ChangedEntry(path, old, new) ==
    [path |-> path, type |-> "changed", oldValue |-> old, newValue |-> new]

\* mutant of AddedEntry: the entry of the other branch pushed
AddedEntry_asRemoved(path, new) ==
    [path |-> path, type |-> "removed", oldValue |-> new]

AddedEntry(path, new) == [path |-> path, type |-> "added", newValue |-> new]

\* mutant of RemovedEntry: both values pushed, as for a changed entry
RemovedEntry_bothValues(path, old) ==
    [path |-> path, type |-> "removed", oldValue |-> old, newValue |-> JUndefined]

RemovedEntry(path, old) == [path |-> path, type |-> "removed", oldValue |-> old]

RECURSIVE Dedupe(_, _)
\* Array.from(new Set(keys)): each key once, at its first place
Dedupe(keys, seen) ==
    IF keys = <<>> THEN <<>>
    ELSE IF keys[1] \in seen THEN Dedupe(Tail(keys), seen)
    ELSE <<keys[1]>> \o Dedupe(Tail(keys), seen \cup {keys[1]})

AllKeys(o1, o2) == Dedupe(ObjectKeys(o1) \o ObjectKeys(o2), {})

RECURSIVE compareJson(_, _, _), CompareItems(_, _, _, _), CompareKeys(_, _, _, _)
compareJson(o1, o2, path) ==
    IF StrictEquals(o1, o2) THEN <<>>
    ELSE IF TypeOf(o1) # TypeOf(o2)
    THEN <<ChangedEntry(PathOrRoot(path), o1, o2)>>
    ELSE IF StrictEquals(o1, JNull) \/ StrictEquals(o2, JNull)
    THEN IF ~StrictEquals(o1, o2)
         THEN <<ChangedEntry(PathOrRoot(path), o1, o2)>>
         ELSE <<>>
    ELSE IF IsArray(o1) /\ IsArray(o2)
    THEN CompareItems(o1, o2, path, 0)
    ELSE IF TypeOf(o1) = "object" /\ TypeOf(o2) = "object"
    THEN CompareKeys(o1, o2, path, AllKeys(o1, o2))
    ELSE IF ~StrictEquals(o1, o2)
    THEN <<ChangedEntry(PathOrRoot(path), o1, o2)>>
    ELSE <<>>

\* the loop over i < maxLength, from index i on
CompareItems(o1, o2, path, i) ==
    LET len1 == Len(Elems(o1))
        len2 == Len(Elems(o2))
        maxLength == IF len1 > len2 THEN len1 ELSE len2
        itemPath == ItemPath(path, i)
    IN  IF ~(i < maxLength) THEN <<>>
        ELSE (IF i >= len1 THEN <<AddedEntry(itemPath, Elems(o2)[i + 1])>>
              ELSE IF i >= len2 THEN <<RemovedEntry(itemPath, Elems(o1)[i + 1])>>
              ELSE compareJson(Elems(o1)[i + 1], Elems(o2)[i + 1], itemPath))
             \o CompareItems(o1, o2, path, i + 1)

\* the loop over allKeys, for the keys still to visit
CompareKeys(o1, o2, path, keys) ==
    IF keys = <<>> THEN <<>>
    ELSE LET key == keys[1]
             keyPath == KeyPath(path, key)
             val1 == Get(o1, key)
             val2 == Get(o2, key)
         IN  (IF ~In(key, o1) THEN <<AddedEntry(keyPath, val2)>>
              ELSE IF ~In(key, o2) THEN <<RemovedEntry(keyPath, val1)>>
              ELSE compareJson(val1, val2, keyPath))
             \o CompareKeys(o1, o2, path, Tail(keys))

(***************************************************************************)
(* The documents the inputs are drawn from.                                *)
(***************************************************************************)
SeqsUpTo(S, n) == UNION {[1..k -> S] : k \in 0..n}

DistinctKeys(props) ==
    \A i, j \in 1..Len(props) : props[i][1] = props[j][1] => i = j

ArraysOver(S) == {JArr(s) : s \in SeqsUpTo(S, MaxLen)}

ObjectsOver(K, S) ==
    {JObj(p) : p \in {q \in SeqsUpTo(K \X S, MaxLen) : DistinctKeys(q)}}

\* one value of every JSON variant, and two unequal numbers
Leaves == {JNull, JBool(TRUE), JNum(1), JNum(2), JStr("s")}

Keys == {"a", "b"}

\* arrays and objects of leaves
Flat == Leaves \cup ArraysOver(Leaves) \cup ObjectsOver(Keys, Leaves)

\* what a nested document holds: a leaf, an array, two unequal objects
Inner ==
    {JNum(1), JArr(<<JNum(1)>>), JObj(<< <<"a", JNum(1)>> >>),
     JObj(<< <<"a", JNum(2)>> >>)}

Nested == ArraysOver(Inner) \cup ObjectsOver(Keys, Inner)

\* objects with an own key that Object.prototype has as well
Shadowing ==
    {JObj(<< <<"constructor", JNum(1)>> >>),
     JObj(<< <<"a", JNum(1)>>, <<"constructor", JNum(1)>> >>)}

\* objects with a key named as the root is labelled
RootKeyed == {JObj(<< <<"root", JNum(1)>> >>), JObj(<< <<"root", JNum(2)>> >>)}

\* arrays of three elements, which lose their middle element to become one
\* of the arrays of two
Longer ==
    {JArr(<<JNum(1), JNum(2), JNum(2)>>), JArr(<<JNum(1), JNum(1), JNum(2)>>)}

\* objects with a key that has a dot in it, next to the key and the nested
\* key the dot stands between
Dotted ==
    {JObj(<< <<"a.b", JNum(1)>>, <<"a", JObj(<< <<"b", JNum(1)>> >>)>> >>),
     JObj(<< <<"a.b", JNum(2)>>, <<"a", JObj(<< <<"b", JNum(2)>> >>)>> >>)}

Documents ==
    Flat \cup Nested \cup Shadowing \cup RootKeyed \cup Longer \cup Dotted

(***************************************************************************)
(* The idle values of the parts a specification leaves alone.              *)
(***************************************************************************)
DiffIdle ==
    /\ leftParsed = JNull /\ rightParsed = JNull
    /\ results = <<>> /\ reverse = <<>> /\ dpc = "idle"

MergeIdle ==
    /\ doc = JNull /\ mergePatch = JNull /\ merged = JNull /\ mpc = "idle"
    /\ docAfter = JNull /\ patchAfter = JNull /\ mergedAgain = JNull

\* the text of a textarea or of the output pane: empty (or blank), the
\* JSON text of a value, or a text that JSON.parse rejects
EmptyText == <<"empty">>
BadText == <<"bad">>
Text(v) == <<"json", v>>
Parsed(t) == t[2]

\* the result state before the first run and after Clear: null
NoResult == [isNull |-> TRUE]

PatchIdle ==
    /\ jsonInput = EmptyText /\ patchInput = EmptyText
    /\ output = EmptyText /\ result = NoResult

AiIdle ==
    /\ apiKey = "" /\ prompt = "" /\ aiJson = "" /\ mode = "generate"
    /\ aiOutput = "" /\ aiError = JNull /\ loading = FALSE
    /\ pending = <<>> /\ wire = <<>>

\* no compare has been run
NoCompare == [ran |-> FALSE]

PageIdle ==
    /\ left = EmptyText /\ right = EmptyText
    /\ diffResults = <<>> /\ diffError = JNull /\ lastCompare = NoCompare

WorkerIdle ==
    /\ promises = <<>> /\ onmessage = 0
    /\ hookState = "idle" /\ progress = 0 /\ stats = JNull
    /\ toWorker = <<>> /\ toMain = <<>> /\ taken = 0
    /\ job = <<>> /\ posted = <<>>

\* localStorage.getItem gives null: nothing is stored under the key
NoItem == [present |-> FALSE]

RecentIdle == stored = NoItem /\ now = 0 /\ visited = <<>>

(***************************************************************************)
(* The Diff page's comparison: compare() parses both texts and calls       *)
(* compareJson(leftParsed, rightParsed); the second action calls it on the *)
(* same two documents the other way round.                                 *)
(***************************************************************************)
DiffInit ==
    /\ leftParsed \in Documents
    /\ rightParsed \in Documents
    /\ results = <<>>
    /\ reverse = <<>>
    /\ dpc = "parsed"
    /\ MergeIdle /\ PatchIdle /\ AiIdle /\ PageIdle /\ WorkerIdle /\ RecentIdle

Compare ==
    /\ dpc = "parsed"
    /\ results' = compareJson(leftParsed, rightParsed, "")
    /\ dpc' = "compared"
    /\ UNCHANGED <<leftParsed, rightParsed, reverse>>
    /\ UNCHANGED <<mergeVars, patchVars, aiVars, pageVars, workerVars, recentVars>>

CompareSwapped ==
    /\ dpc = "compared"
    /\ reverse' = compareJson(rightParsed, leftParsed, "")
    /\ dpc' = "both"
    /\ UNCHANGED <<leftParsed, rightParsed, results>>
    /\ UNCHANGED <<mergeVars, patchVars, aiVars, pageVars, workerVars, recentVars>>

DiffNext == Compare \/ CompareSwapped

DiffSpec == DiffInit /\ [][DiffNext]_vars

(***************************************************************************)
(* applyMergePatch (MergePatch.tsx).                                       *)
(***************************************************************************)
\* mutant of NotAnObject: Array.isArray left out of the test
NotAnObject_arrayAsObject(v) == StrictEquals(v, JNull) \/ TypeOf(v) # "object"

\* patch === null || typeof patch !== 'object' || Array.isArray(patch), and
\* the same test of the target
NotAnObject(v) == StrictEquals(v, JNull) \/ TypeOf(v) # "object" \/ IsArray(v)

\* mutant of Spread: the result started empty, the target's keys not copied
Spread_empty(t) == <<>>

\* { ...target }: the own properties of the target, in their order (of an
\* array, its indices and elements)
Spread(t) ==
    [i \in 1..Len(ObjectKeys(t)) |-> <<ObjectKeys(t)[i], Get(t, ObjectKeys(t)[i])>>]

\* mutant of DeleteProp: null stored under the key, the key not deleted
DeleteProp_setNull(props, key) ==
    IF \E i \in 1..Len(props) : props[i][1] = key
    THEN [i \in 1..Len(props) |->
            IF props[i][1] = key THEN <<key, JNull>> ELSE props[i]]
    ELSE Append(props, <<key, JNull>>)

\* mutant of DeleteProp: the last property deleted, whatever the key
DeleteProp_lastProperty(props, key) ==
    IF props = <<>> THEN <<>> ELSE SubSeq(props, 1, Len(props) - 1)

RECURSIVE DeleteProp(_, _)
\* delete result[key]
DeleteProp(props, key) ==
    IF props = <<>> THEN <<>>
    ELSE IF props[1][1] = key THEN Tail(props)
    ELSE <<props[1]>> \o DeleteProp(Tail(props), key)

\* result[key] = v: an own key keeps its place, a new key is appended
SetProp(props, key, v) ==
    IF key \in SeqToSet(KeysOfProps(props))
    THEN [i \in 1..Len(props) |->
            IF props[i][1] = key THEN <<key, v>> ELSE props[i]]
    ELSE Append(props, <<key, v>>)

RECURSIVE applyMergePatch(_, _), MergeKeys(_, _, _)
applyMergePatch(t, p) ==
    IF NotAnObject(p) THEN p
    ELSE LET t0 == IF NotAnObject(t) THEN JObj(<<>>) ELSE t
         IN  JObj(MergeKeys(Spread(t0), p, ObjectKeys(p)))

\* the loop over the patch's own keys, for the keys still to visit
MergeKeys(props, p, keys) ==
    IF keys = <<>> THEN props
    ELSE LET key == keys[1]
         IN  IF StrictEquals(Get(p, key), JNull)
             THEN MergeKeys(DeleteProp(props, key), p, Tail(keys))
             ELSE MergeKeys(
                      SetProp(props, key,
                              applyMergePatch(Get(JObj(props), key), Get(p, key))),
                      p, Tail(keys))

(***************************************************************************)
(* applyMergePatch on the objects in memory.  JSON.parse builds each array *)
(* and object as a cell of the heap; a slot (an element, a property's      *)
(* value, an argument) holds a primitive or the reference <<"ref", n>> of  *)
(* the n-th cell, so that two slots can hold the same object and a write   *)
(* through one is seen through the other.                                  *)
(***************************************************************************)
Ref(n) == <<"ref", n>>
IsRef(s) == Tag(s) = "ref"
Cell(h, s) == h[s[2]]

\* the own enumerable properties of a cell, as <<key, slot>> pairs
CellProps(c) ==
    IF c[1] = "arr" THEN [i \in 1..Len(c[2]) |-> <<Digits(i - 1), c[2][i]>>]
    ELSE c[2]

RECURSIVE Alloc(_, _), AllocAll(_, _)
\* JSON.parse: the cells of a value, children first, and the slot for it
Alloc(h, v) ==
    IF Tag(v) = "arr"
    THEN LET r == AllocAll(h, Elems(v))
         IN  [heap |-> Append(r.heap, <<"arr", r.slots>>),
              slot |-> Ref(Len(r.heap) + 1)]
    ELSE IF Tag(v) = "obj"
    THEN LET r == AllocAll(h, [i \in 1..Len(Props(v)) |-> Props(v)[i][2]])
         IN  [heap |-> Append(r.heap,
                              <<"obj", [i \in 1..Len(Props(v)) |->
                                           <<Props(v)[i][1], r.slots[i]>>]>>),
              slot |-> Ref(Len(r.heap) + 1)]
    ELSE [heap |-> h, slot |-> v]

AllocAll(h, vs) ==
    IF vs = <<>> THEN [heap |-> h, slots |-> <<>>]
    ELSE LET first == Alloc(h, vs[1])
             rest == AllocAll(first.heap, Tail(vs))
         IN  [heap |-> rest.heap, slots |-> <<first.slot>> \o rest.slots]

RECURSIVE Deref(_, _)
\* the value a slot holds, read through the heap at every depth
Deref(h, s) ==
    IF ~IsRef(s) THEN s
    ELSE LET c == Cell(h, s)
         IN  IF c[1] = "arr"
             THEN JArr([i \in 1..Len(c[2]) |-> Deref(h, c[2][i])])
             ELSE JObj([i \in 1..Len(c[2]) |->
                          <<c[2][i][1], Deref(h, c[2][i][2])>>])

\* target = {} as Record<string, unknown>: a new, empty object
NewObject(h) == [heap |-> Append(h, <<"obj", <<>>>>), slot |-> Ref(Len(h) + 1)]

\* mutant of CopyOf: const result = target, the same object and not a copy
CopyOf_sameObject(h, t) == [heap |-> h, slot |-> t]

\* const result = { ...target }: a new object with the target's own
\* properties, each holding what the target's holds
CopyOf(h, t) ==
    [heap |-> Append(h, <<"obj", CellProps(Cell(h, t))>>),
     slot |-> Ref(Len(h) + 1)]

\* result[key], read
SlotAt(h, r, key) ==
    LET props == CellProps(Cell(h, r))
    IN  IF \E i \in 1..Len(props) : props[i][1] = key
        THEN props[CHOOSE i \in 1..Len(props) : props[i][1] = key][2]
        ELSE IF key \in ObjectProtoKeys THEN JFun("Object." \o key)
        ELSE JUndefined

\* delete result[key]
DeleteInMemory(h, r, key) ==
    [h EXCEPT ![r[2]] = <<"obj", DeleteProp(CellProps(@), key)>>]

\* result[key] = slot
StoreInMemory(h, r, key, slot) ==
    [h EXCEPT ![r[2]] = <<"obj", SetProp(CellProps(@), key, slot)>>]

RECURSIVE applyMergePatchOnHeap(_, _, _), MergeKeysOnHeap(_, _, _, _)
\* applyMergePatch(t, p) run on heap h: the heap it leaves and the slot it
\* returns
applyMergePatchOnHeap(h, t, p) ==
    IF NotAnObject(Deref(h, p)) THEN [heap |-> h, slot |-> p]
    ELSE LET t0 == IF NotAnObject(Deref(h, t)) THEN NewObject(h)
                   ELSE [heap |-> h, slot |-> t]
             copy == CopyOf(t0.heap, t0.slot)
         IN  MergeKeysOnHeap(copy.heap, copy.slot, p,
                             KeysOfProps(CellProps(Cell(copy.heap, p))))

\* the loop over the patch's own keys, writing to the object r
MergeKeysOnHeap(h, r, p, keys) ==
    IF keys = <<>> THEN [heap |-> h, slot |-> r]
    ELSE LET key == keys[1]
             patchValue == SlotAt(h, p, key)
         IN  IF Tag(patchValue) = "null"
             THEN MergeKeysOnHeap(DeleteInMemory(h, r, key), r, p, Tail(keys))
             ELSE LET sub == applyMergePatchOnHeap(h, SlotAt(h, r, key), patchValue)
                  IN  MergeKeysOnHeap(StoreInMemory(sub.heap, r, key, sub.slot),
                                      r, p, Tail(keys))

\* doc = JSON.parse(jsonInput), patch = JSON.parse(patchInput) and the call
\* applyMergePatch(doc, patch): what doc and patch hold afterwards, and the
\* value returned
applyMergePatchInMemory(d, p) ==
    LET target == Alloc(<<>>, d)
        patch == Alloc(target.heap, p)
        returned == applyMergePatchOnHeap(patch.heap, target.slot, patch.slot)
    IN  [target |-> Deref(returned.heap, target.slot),
         patch |-> Deref(returned.heap, patch.slot),
         result |-> Deref(returned.heap, returned.slot)]

\* patches that delete a key, at the top and one level down
Deleting ==
    {JObj(<< <<"a", JNull>> >>),
     JObj(<< <<"a", JObj(<< <<"a", JNull>> >>)>> >>),
     JObj(<< <<"a", JNum(2)>>, <<"b", JObj(<< <<"a", JNull>> >>)>> >>),
     JObj(<< <<"constructor", JObj(<< <<"a", JNum(2)>> >>)>> >>)}

Patches == Documents \cup Deleting

\* the call applyMergePatch(doc, patch) of the page's handler, on a parsed
\* document and a parsed patch
MergeInit ==
    /\ doc \in Documents
    /\ mergePatch \in Patches
    /\ merged = JNull
    /\ mpc = "parsed"
    /\ docAfter = doc
    /\ patchAfter = mergePatch
    /\ mergedAgain = JNull
    /\ DiffIdle /\ PatchIdle /\ AiIdle /\ PageIdle /\ WorkerIdle /\ RecentIdle

ApplyMerge ==
    /\ mpc = "parsed"
    /\ merged' = applyMergePatch(doc, mergePatch)
    /\ LET after == applyMergePatchInMemory(doc, mergePatch)
       IN  /\ docAfter' = after.target
           /\ patchAfter' = after.patch
    /\ mpc' = "merged"
    /\ UNCHANGED <<doc, mergePatch, mergedAgain>>
    /\ UNCHANGED <<diffVars, patchVars, aiVars, pageVars, workerVars, recentVars>>

\* the call applyMergePatch(result, patch), on the result of the first call
ApplyMergeAgain ==
    /\ mpc = "merged"
    /\ mergedAgain' = applyMergePatch(merged, mergePatch)
    /\ mpc' = "again"
    /\ UNCHANGED <<doc, mergePatch, merged, docAfter, patchAfter>>
    /\ UNCHANGED <<diffVars, patchVars, aiVars, pageVars, workerVars, recentVars>>

MergeNext == ApplyMerge \/ ApplyMergeAgain

MergeSpec == MergeInit /\ [][MergeNext]_vars

(***************************************************************************)
(* Structural equality of JSON values: numbers by value, strings by        *)
(* content, arrays by element order, objects by their key/value sets       *)
(* whatever the key order.                                                 *)
(***************************************************************************)
OwnKeySet(v) == SeqToSet(KeysOfProps(Props(v)))

OwnValue(v, key) ==
    Props(v)[CHOOSE i \in 1..Len(Props(v)) : Props(v)[i][1] = key][2]

RECURSIVE StructEq(_, _)
StructEq(a, b) ==
    IF Tag(a) # Tag(b) THEN FALSE
    ELSE IF Tag(a) = "arr"
    THEN /\ Len(Elems(a)) = Len(Elems(b))
         /\ \A i \in 1..Len(Elems(a)) : StructEq(Elems(a)[i], Elems(b)[i])
    ELSE IF Tag(a) = "obj"
    THEN /\ OwnKeySet(a) = OwnKeySet(b)
         /\ \A k \in OwnKeySet(a) : StructEq(OwnValue(a, k), OwnValue(b, k))
    ELSE a = b

(***************************************************************************)
(* JSON Patch (RFC 6902).  The page calls validate and applyPatch of the   *)
(* fast-json-patch package, whose code is not part of the repository: the  *)
(* two are modelled from section 4.3 of the specification.  A pointer is   *)
(* the sequence of its tokens, a token an object key, an array index or    *)
(* the append marker; an operation is a record with the fields op and      *)
(* path, and value or from where the document gives them.                  *)
(***************************************************************************)
KeyTok(k) == <<"key", k>>
IdxTok(i) == <<"idx", i>>
AppendTok == <<"append">>

Ok(v) == [ok |-> TRUE, doc |-> v]
Err(kind) == [ok |-> FALSE, kind |-> kind]

\* the error of an operation: PatchError{opIndex, kind}
PatchError(i, kind) == [opIndex |-> i, kind |-> kind]
NoError == [none |-> TRUE]

\* resolving one token against a value: the child, or why there is none
Child(v, tok) ==
    IF Tag(v) = "obj"
    THEN IF tok[1] # "key" THEN Err("TypeMismatch")
         ELSE IF tok[2] \in OwnKeySet(v) THEN Ok(OwnValue(v, tok[2]))
         ELSE Err("NotFound")
    ELSE IF Tag(v) = "arr"
    THEN IF tok[1] = "key" THEN Err("TypeMismatch")
         ELSE IF tok[1] = "append" THEN Err("Malformed")
         ELSE IF tok[2] < Len(Elems(v)) THEN Ok(Elems(v)[tok[2] + 1])
         ELSE Err("NotFound")
    ELSE Err("TypeMismatch")

RECURSIVE ValueAt(_, _)
\* the value a pointer resolves to
ValueAt(v, toks) ==
    IF toks = <<>> THEN Ok(v)
    ELSE LET c == Child(v, toks[1])
         IN  IF c.ok THEN ValueAt(c.doc, Tail(toks)) ELSE c

\* v with the child at tok replaced by w (the child exists)
WithChild(v, tok, w) ==
    IF Tag(v) = "obj" THEN JObj(SetProp(Props(v), tok[2], w))
    ELSE JArr([Elems(v) EXCEPT ![tok[2] + 1] = w])

InsertAt(elems, i, w) ==
    SubSeq(elems, 1, i) \o <<w>> \o SubSeq(elems, i + 1, Len(elems))

RemoveIndex(elems, i) ==
    SubSeq(elems, 1, i) \o SubSeq(elems, i + 2, Len(elems))

\* add at the last token: an object sets the key; an array inserts at an
\* index up to its length, or appends
AddHere(v, tok, w) ==
    IF Tag(v) = "obj"
    THEN IF tok[1] = "key" THEN Ok(JObj(SetProp(Props(v), tok[2], w)))
         ELSE Err("TypeMismatch")
    ELSE IF Tag(v) = "arr"
    THEN IF tok[1] = "key" THEN Err("TypeMismatch")
         ELSE IF tok[1] = "append" THEN Ok(JArr(Append(Elems(v), w)))
         ELSE IF tok[2] <= Len(Elems(v)) THEN Ok(JArr(InsertAt(Elems(v), tok[2], w)))
         ELSE Err("OutOfBounds")
    ELSE Err("TypeMismatch")

\* remove at the last token: the location must exist
RemoveHere(v, tok) ==
    LET c == Child(v, tok)
    IN  IF ~c.ok THEN c
        ELSE IF Tag(v) = "obj" THEN Ok(JObj(DeleteProp(Props(v), tok[2])))
        ELSE Ok(JArr(RemoveIndex(Elems(v), tok[2])))

\* replace at the last token: the location must exist
ReplaceHere(v, tok, w) ==
    LET c == Child(v, tok)
    IN  IF ~c.ok THEN c ELSE Ok(WithChild(v, tok, w))

RECURSIVE Edit(_, _, _, _)
\* the edit `how` at the location a non-empty pointer names, on a copy
Edit(how, v, toks, w) ==
    IF Len(toks) = 1
    THEN CASE how = "add" -> AddHere(v, toks[1], w)
           [] how = "remove" -> RemoveHere(v, toks[1])
           [] OTHER -> ReplaceHere(v, toks[1], w)
    ELSE LET c == Child(v, toks[1])
         IN  IF ~c.ok THEN c
             ELSE LET r == Edit(how, c.doc, Tail(toks), w)
                  IN  IF r.ok THEN Ok(WithChild(v, toks[1], r.doc)) ELSE r

IsPrefix(p, q) == Len(p) <= Len(q) /\ SubSeq(q, 1, Len(p)) = p

\* the required fields of an operation: add, replace and test need value,
\* move and copy need from
WellFormed(op) ==
    CASE op.op \in {"add", "replace", "test"} -> "value" \in DOMAIN op
      [] op.op \in {"move", "copy"} -> "from" \in DOMAIN op
      [] OTHER -> TRUE

\* one operation, applied to the working copy
ApplyOperation(v, op) ==
    IF ~WellFormed(op) THEN Err("Malformed")
    ELSE CASE op.op = "add" -> Edit("add", v, op.path, op.value)
           [] op.op = "remove" -> Edit("remove", v, op.path, JNull)
           [] op.op = "replace" -> Edit("replace", v, op.path, op.value)
           [] op.op = "test" ->
                LET c == ValueAt(v, op.path)
                IN  IF ~c.ok THEN c
                    ELSE IF StructEq(c.doc, op.value) THEN Ok(v)
                    ELSE Err("TestFailed")
           [] op.op = "copy" ->
                LET c == ValueAt(v, op.from)
                IN  IF ~c.ok THEN c ELSE Edit("add", v, op.path, c.doc)
           [] OTHER ->
                IF IsPrefix(op.from, op.path) THEN Err("MoveIntoSelf")
                ELSE LET c == ValueAt(v, op.from)
                     IN  IF ~c.ok THEN c
                         ELSE LET r == Edit("remove", v, op.from, JNull)
                              IN  IF ~r.ok THEN r
                                  ELSE Edit("add", r.doc, op.path, c.doc)

RECURSIVE FirstMalformed(_, _)
\* the index of the first operation, from the i-th on, that lacks a
\* required field; -1 when there is none
FirstMalformed(ops, i) ==
    IF i >= Len(ops) THEN -1
    ELSE IF ~WellFormed(ops[i + 1]) THEN i
    ELSE FirstMalformed(ops, i + 1)

\* validate(patch, doc) of the package: the pre-flight check of the list
LibValidate(ops, d) ==
    LET i == FirstMalformed(ops, 0)
    IN  IF i >= 0 THEN PatchError(i, "Malformed") ELSE NoError

RECURSIVE RunFrom(_, _, _)
\* the operations from the i-th on, in order, on the working copy: the new
\* document, or the error of the first operation that fails
RunFrom(v, ops, i) ==
    IF i >= Len(ops) THEN [ok |-> TRUE, newDocument |-> v]
    ELSE LET r == ApplyOperation(v, ops[i + 1])
         IN  IF r.ok THEN RunFrom(r.doc, ops, i + 1)
             ELSE [ok |-> FALSE, error |-> PatchError(i, r.kind)]

\* applyPatch(doc, patch, true, false) of the package
LibApplyPatch(d, ops) == RunFrom(d, ops, 0)

\* whether the message of an error of the package holds the text 'test'
MessageIncludesTest(e) == e.kind = "TestFailed"

(***************************************************************************)
(* The JsonPatch page (JsonPatch.tsx): PatchResult, and the handlers       *)
(* applyJsonPatch, clearAll and the onChange of the document textarea.     *)
(***************************************************************************)
\* { success: false, error }: the page's own message, or a prefix and the
\* message of the package's error
Failure(prefix) == [success |-> FALSE, error |-> [prefix |-> prefix]]
FailureWith(prefix, message) ==
    [success |-> FALSE, error |-> [prefix |-> prefix, message |-> message]]

RECURSIVE TestResults(_)
\* one { path, passed: true } for every test operation of the patch
TestResults(ops) ==
    IF ops = <<>> THEN <<>>
    ELSE (IF ops[1].op = "test"
          THEN <<[path |-> ops[1].path, passed |-> TRUE]>> ELSE <<>>)
         \o TestResults(Tail(ops))

\* { success: true, result: newDoc, testResults }
Success(newDoc, ops) ==
    [success |-> TRUE, result |-> newDoc,
     testResults |-> IF Len(TestResults(ops)) > 0
                     THEN <<"list", TestResults(ops)>> ELSE JUndefined]

\* mutant of Validate: the pre-flight call left out
Validate_skipped(ops, d) == NoError

\* const validationErrors = validate(patch, doc)
Validate(ops, d) == LibValidate(ops, d)

\* mutant of ErrorMessage: the fallback text taken for every error
ErrorMessage_generic(e) == [text |-> "Patch application failed"]

\* validationErrors.message, and e instanceof Error ? e.message : ...
ErrorMessage(e) == e

\* mutant of CatchOutput: setOutput('') missing from the catch block
CatchOutput_kept(out) == out

\* setOutput('') of the catch block
CatchOutput(out) == EmptyText

\* the output and the result applyJsonPatch sets
ApplyJsonPatchSets(json, patchText, out) ==
    IF json = EmptyText
    THEN [output |-> EmptyText, result |-> Failure("Please enter JSON document")]
    ELSE IF patchText = EmptyText
    THEN [output |-> EmptyText,
          result |-> Failure("Please enter JSON Patch operations")]
    ELSE IF json = BadText
    THEN [output |-> EmptyText, result |-> Failure("Invalid JSON document: ")]
    ELSE IF patchText = BadText
    THEN [output |-> EmptyText, result |-> Failure("Invalid JSON Patch: ")]
    ELSE IF ~IsArray(Parsed(patchText))
    THEN [output |-> EmptyText,
          result |-> Failure("JSON Patch must be an array of operations")]
    ELSE LET d == Parsed(json)
             ops == Elems(Parsed(patchText))
             validationErrors == Validate(ops, d)
             patchResult == LibApplyPatch(d, ops)
         IN  IF validationErrors # NoError
             THEN [output |-> EmptyText,
                   result |-> FailureWith("Patch validation failed: ",
                                          ErrorMessage(validationErrors))]
             ELSE IF patchResult.ok
             THEN [output |-> Text(patchResult.newDocument),
                   result |-> Success(patchResult.newDocument, ops)]
             ELSE [output |-> CatchOutput(out),
                   result |->
                       FailureWith(IF MessageIncludesTest(patchResult.error)
                                   THEN "Test operation failed: " ELSE "",
                                   ErrorMessage(patchResult.error))]

\* the documents of the page
PatchDocs ==
    {JObj(<< <<"a", JNum(1)>> >>),
     JObj(<< <<"a", JNum(1)>>, <<"b", JNum(2)>> >>),
     JObj(<< <<"a", JObj(<< <<"b", JNum(1)>> >>)>> >>),
     JObj(<< <<"b", JArr(<<JNum(1), JNum(2)>>)>> >>)}

JsonTexts == {EmptyText, BadText} \cup {Text(d) : d \in PatchDocs}

PathA == <<KeyTok("a")>>
PathB == <<KeyTok("b")>>

\* the operations a patch is made of: each kind, with operations that
\* succeed or fail depending on the document, and two that lack a field
Operations ==
    {[op |-> "test", path |-> PathA, value |-> JNum(1)],
     [op |-> "test", path |-> PathA, value |-> JNum(2)],
     [op |-> "replace", path |-> PathA, value |-> JNum(2)],
     [op |-> "add", path |-> PathB, value |-> JNum(2)],
     [op |-> "add", path |-> <<KeyTok("b"), IdxTok(5)>>, value |-> JNum(1)],
     [op |-> "add", path |-> <<KeyTok("b"), AppendTok>>, value |-> JNum(1)],
     [op |-> "remove", path |-> PathB],
     [op |-> "move", from |-> PathA, path |-> PathB],
     [op |-> "move", from |-> PathA, path |-> <<KeyTok("a"), KeyTok("b")>>],
     [op |-> "move", from |-> PathA, path |-> PathA],
     [op |-> "copy", from |-> PathA, path |-> PathB],
     [op |-> "add", path |-> PathA],
     [op |-> "move", path |-> PathB]}

PatchTexts ==
    {EmptyText, BadText, Text(JObj(<<>>))}
    \cup {Text(JArr(ops)) : ops \in UNION {[1..k -> Operations] : k \in 0..MaxOps}}

\* the user has entered a document and a patch and has not run them yet
PatchInit ==
    /\ jsonInput \in JsonTexts
    /\ patchInput \in PatchTexts
    /\ output = EmptyText
    /\ result = NoResult
    /\ DiffIdle /\ MergeIdle /\ AiIdle /\ PageIdle /\ WorkerIdle /\ RecentIdle

\* onChange of the document textarea (and a dropped file): setJsonInput
SetJsonInput ==
    /\ \E t \in JsonTexts : jsonInput' = t
    /\ UNCHANGED <<patchInput, output, result>>
    /\ UNCHANGED <<diffVars, mergeVars, aiVars, pageVars, workerVars, recentVars>>

\* what an edit of the patch textarea leaves in it: the text emptied,
\* garbled or turned into an object, or one operation typed at the end or
\* deleted from it
PatchEdits(t) ==
    {EmptyText, BadText, Text(JObj(<<>>)), Text(JArr(<<>>))}
    \cup (IF t \in {EmptyText, BadText} \/ ~IsArray(Parsed(t)) THEN {}
          ELSE LET ops == Elems(Parsed(t))
               IN  {Text(JArr(Append(ops, o))) : o \in
                        IF Len(ops) < MaxOps THEN Operations ELSE {}}
                   \cup (IF ops = <<>> THEN {}
                         ELSE {Text(JArr(SubSeq(ops, 1, Len(ops) - 1)))}))

\* onChange of the patch textarea (and a dropped file): setPatchInput
SetPatchInput ==
    /\ \E t \in PatchEdits(patchInput) : patchInput' = t
    /\ UNCHANGED <<jsonInput, output, result>>
    /\ UNCHANGED <<diffVars, mergeVars, aiVars, pageVars, workerVars, recentVars>>

applyJsonPatch ==
    /\ LET sets == ApplyJsonPatchSets(jsonInput, patchInput, output)
       IN  /\ output' = sets.output
           /\ result' = sets.result
    /\ UNCHANGED <<jsonInput, patchInput>>
    /\ UNCHANGED <<diffVars, mergeVars, aiVars, pageVars, workerVars, recentVars>>

PatchClearAll ==
    /\ jsonInput' = EmptyText
    /\ patchInput' = EmptyText
    /\ output' = EmptyText
    /\ result' = NoResult
    /\ UNCHANGED <<diffVars, mergeVars, aiVars, pageVars, workerVars, recentVars>>

PatchNext == SetJsonInput \/ SetPatchInput \/ applyJsonPatch \/ PatchClearAll

PatchSpec == PatchInit /\ [][PatchNext]_vars

\* the variant of a JSON value: null, boolean, number, string, array, object
Variant(v) == Tag(v)

\* a field of a diff entry, undefined when the entry does not carry it
Field(e, f) == IF f \in DOMAIN e THEN e[f] ELSE JUndefined

Compared == dpc \in {"compared", "both"}

\* C3: for structurally equal a and b (objects whatever the key order,
\* arrays by element order), diff(a, b) is the empty list.
C3_EqualDocumentsDiffEmpty ==
    (Compared /\ StructEq(leftParsed, rightParsed)) => results = <<>>

\* two equal documents whose texts differ (keys in another order), nested
\* or not, were compared
C3_Witness ==
    /\ Compared
    /\ StructEq(leftParsed, rightParsed)
    /\ leftParsed # rightParsed
    /\ results = <<>>

\* the entry diff(b, a) must hold for the entry e of diff(a, b)
Mirror(e) ==
    CASE e.type = "added" ->
           [path |-> e.path, type |-> "removed", oldValue |-> Field(e, "newValue")]
      [] e.type = "removed" ->
           [path |-> e.path, type |-> "added", newValue |-> Field(e, "oldValue")]
      [] OTHER ->
           [path |-> e.path, type |-> "changed",
            oldValue |-> Field(e, "newValue"), newValue |-> Field(e, "oldValue")]

\* C4: for every entry of diff(a, b), diff(b, a) contains the mirror entry
\* at the same path: added <-> removed with the value on the other side,
\* changed with oldValue and newValue swapped.
C4_MirrorEntries ==
    dpc = "both" =>
        \A i \in 1..Len(results) :
            \E j \in 1..Len(reverse) : reverse[j] = Mirror(results[i])

\* a diff with an added and a changed entry was mirrored
C4_Witness ==
    /\ dpc = "both"
    /\ \E i, j \in 1..Len(results) :
          results[i].type = "added" /\ results[j].type = "changed"
    /\ \E i \in 1..Len(reverse) : reverse[i].type = "removed"

\* C5: whenever a and b have different variants, diff emits exactly one
\* Changed entry with oldValue a and newValue b, and recurses into neither.
C5_DifferentVariantsOneChanged ==
    (Compared /\ Variant(leftParsed) # Variant(rightParsed)) =>
        /\ Len(results) = 1
        /\ results[1].type = "changed"
        /\ Field(results[1], "oldValue") = leftParsed
        /\ Field(results[1], "newValue") = rightParsed

\* C10: an added entry carries only newValue, a removed entry only
\* oldValue, a changed entry both, and the two are structurally unequal.
C10_DiffEntryInvariant ==
    Compared =>
        \A i \in 1..Len(results) :
            LET e == results[i]
            IN  CASE e.type = "added" ->
                       DOMAIN e = {"path", "type", "newValue"}
                       /\ e.newValue # JUndefined
                  [] e.type = "removed" ->
                       DOMAIN e = {"path", "type", "oldValue"}
                       /\ e.oldValue # JUndefined
                  [] e.type = "changed" ->
                       /\ DOMAIN e = {"path", "type", "oldValue", "newValue"}
                       /\ e.oldValue # JUndefined /\ e.newValue # JUndefined
                       /\ ~StructEq(e.oldValue, e.newValue)
                  [] OTHER -> FALSE

\* a diff holding the three kinds of entry, one of them below the root
C10_Witness ==
    /\ Compared
    /\ \E i, j, k \in 1..Len(results) :
          /\ results[i].type = "added"
          /\ results[j].type = "removed"
          /\ results[k].type = "changed"
          /\ results[k].path \notin {"root", "a", "b", "[0]", "[1]"}

\* C6 as stated: applyMergePatch(x, {}) equals x for every JSON value x.
C6_EmptyPatchIdentity_Original ==
    (mpc = "merged" /\ mergePatch = JObj(<<>>)) => StructEq(merged, doc)

\* C6, amended: applyMergePatch(x, {}) is x for every object x, and is the
\* empty object for every x that is not an object (primitive, array, null).
C6_EmptyPatchIdentity ==
    (mpc = "merged" /\ mergePatch = JObj(<<>>)) =>
        IF IsPlainObject(doc) THEN merged = doc ELSE merged = JObj(<<>>)

\* the empty patch was applied to an object with keys
C6_Witness ==
    /\ mpc = "merged"
    /\ mergePatch = JObj(<<>>)
    /\ IsPlainObject(doc)
    /\ Len(Props(doc)) = 2
    /\ merged = doc

(***************************************************************************)
(* The JsonPatch page's claims.                                            *)
(***************************************************************************)
\* both textareas parse, and the patch is an array: the call reaches the
\* operations
ReachesOperations ==
    /\ jsonInput \notin {EmptyText, BadText}
    /\ patchInput \notin {EmptyText, BadText}
    /\ IsArray(Parsed(patchInput))

CurrentDoc == Parsed(jsonInput)
CurrentOps == Elems(Parsed(patchInput))

\* the document the first n operations leave, when they all succeed
AfterFirst(d, ops, n) == RunFrom(d, SubSeq(ops, 1, n), 0)

\* the operation at index i (from 0) fails where it stands: it lacks a
\* required field, or the operations before it succeed and it does not
FailsAt(d, ops, i) ==
    \/ ~WellFormed(ops[i + 1])
    \/ /\ AfterFirst(d, ops, i).ok
       /\ ~ApplyOperation(AfterFirst(d, ops, i).newDocument, ops[i + 1]).ok

SomeOperationFails(d, ops) == \E i \in 0..(Len(ops) - 1) : FailsAt(d, ops, i)

IsFailure(r) == "success" \in DOMAIN r /\ ~r.success

\* the index the error message of a failure result carries, -1 when the
\* result carries none
IndexOf(r) ==
    IF /\ IsFailure(r)
       /\ "message" \in DOMAIN r.error
       /\ "opIndex" \in DOMAIN r.error.message
    THEN r.error.message.opIndex
    ELSE -1

KindOf(r) ==
    IF IndexOf(r) >= 0 /\ "kind" \in DOMAIN r.error.message
    THEN r.error.message.kind
    ELSE "none"

\* C1: applyJsonPatch is atomic: whenever some operation of the list fails,
\* at validation or during application, the call yields a failure result,
\* the output is empty (no partially patched document) and the document
\* entered is left as it was.
C1_AtomicFailure ==
    [][(applyJsonPatch /\ ReachesOperations
            /\ SomeOperationFails(CurrentDoc, CurrentOps))
        => /\ IsFailure(result')
           /\ output' = EmptyText
           /\ jsonInput' = jsonInput]_vars

\* a run failed at its second operation, after the first had succeeded,
\* and left a failure, an empty output and the document in place
C1_Witness ==
    /\ ReachesOperations
    /\ Len(CurrentOps) = 2
    /\ AfterFirst(CurrentDoc, CurrentOps, 1).ok
    /\ AfterFirst(CurrentDoc, CurrentOps, 1).newDocument # CurrentDoc
    /\ FailsAt(CurrentDoc, CurrentOps, 1)
    /\ IsFailure(result)
    /\ IndexOf(result) = 1
    /\ output = EmptyText

\* the first operation to fail is a test, at index i: the list is well
\* formed, the operations before it succeed, and the value at its path is
\* not the value it expects
TestFailsAt(d, ops, i) ==
    /\ ops[i + 1].op = "test"
    /\ \A j \in 1..Len(ops) : WellFormed(ops[j])
    /\ AfterFirst(d, ops, i).ok
    /\ LET at == ValueAt(AfterFirst(d, ops, i).newDocument, ops[i + 1].path)
       IN  at.ok /\ ~StructEq(at.doc, ops[i + 1].value)

C2_ExampleReached ==
    /\ jsonInput = Text(JObj(<< <<"a", JNum(1)>> >>))
    /\ patchInput = Text(JArr(<<[op |-> "test", path |-> PathA, value |-> JNum(2)],
                                [op |-> "replace", path |-> PathA, value |-> JNum(2)]>>))
    /\ IsFailure(result)
    /\ IndexOf(result) = 0
    /\ KindOf(result) = "TestFailed"
    /\ output = EmptyText

MovesIntoSelfAt(d, ops, i) ==
    /\ ops[i + 1].op = "move"
    /\ \A j \in 1..Len(ops) : WellFormed(ops[j])
    /\ AfterFirst(d, ops, i).ok
    /\ LET from == ops[i + 1].from
           path == ops[i + 1].path
       IN  \/ from = path
           \/ Len(from) < Len(path) /\ SubSeq(path, 1, Len(from)) = from

C11_WitnessPrefix ==
    /\ ReachesOperations
    /\ \E i \in 0..(Len(CurrentOps) - 1) :
         /\ MovesIntoSelfAt(CurrentDoc, CurrentOps, i)
         /\ Len(CurrentOps[i + 1].from) < Len(CurrentOps[i + 1].path)
         /\ IndexOf(result) = i
    /\ KindOf(result) = "MoveIntoSelf"
    /\ output = EmptyText


(***************************************************************************)
(* applyMergePatch's claims.                                               *)
(***************************************************************************)
Merged == mpc = "merged"

\* the value the target has under key k, undefined when the target is not
\* an object or has no such key
TargetValue(k) ==
    IF IsPlainObject(doc) /\ k \in OwnKeySet(doc)
    THEN OwnValue(doc, k)
    ELSE JUndefined

\* C12: a patch that is not an object (a primitive, an array or null) is
\* itself the result, whatever the target is; a null patch gives null.
C12_NonObjectPatchReplaces ==
    (Merged /\ Tag(mergePatch) # "obj") => merged = mergePatch

\* an array patch replaced an object target
C12_WitnessArray ==
    /\ Merged
    /\ IsArray(mergePatch) /\ Len(Elems(mergePatch)) > 0
    /\ Tag(doc) = "obj" /\ Props(doc) # <<>>
    /\ merged = mergePatch

\* the patch null replaced a target that is not null
C12_WitnessNull ==
    /\ Merged
    /\ mergePatch = <<"null">>
    /\ Tag(doc) \in {"obj", "arr", "num"}
    /\ merged = <<"null">>

C13_WitnessNested ==
    /\ Merged
    /\ Tag(mergePatch) = "obj" /\ Tag(doc) = "obj"
    /\ \E k \in OwnKeySet(mergePatch) \cap OwnKeySet(doc) :
         /\ Tag(OwnValue(mergePatch, k)) = "obj"
         /\ Tag(OwnValue(doc, k)) = "obj"
         /\ \E j \in OwnKeySet(OwnValue(mergePatch, k)) \cap OwnKeySet(OwnValue(doc, k)) :
              /\ Tag(OwnValue(OwnValue(mergePatch, k), j)) = "null"
              /\ j \notin OwnKeySet(OwnValue(merged, k))

\* a null of the patch under a key the target does not have: no key appears
C13_WitnessDeleteAbsent ==
    /\ Merged
    /\ Tag(mergePatch) = "obj"
    /\ \E k \in OwnKeySet(mergePatch) :
         /\ Tag(OwnValue(mergePatch, k)) = "null"
         /\ TargetValue(k) = <<"undefined">>
         /\ k \notin OwnKeySet(merged)

\* C14: for an object patch and an object target, every key the target has
\* and the patch does not is in the result with exactly the target's value.
C14_UntouchedKeysKept ==
    (Merged /\ Tag(mergePatch) = "obj" /\ Tag(doc) = "obj")
    => \A k \in OwnKeySet(doc) \ OwnKeySet(mergePatch) :
         /\ k \in OwnKeySet(merged)
         /\ OwnValue(merged, k) = OwnValue(doc, k)

\* the patch changed one key of the target and left another, a nested
\* value, in place
C14_Witness ==
    /\ Merged
    /\ Tag(mergePatch) = "obj" /\ Tag(doc) = "obj"
    /\ \E k \in OwnKeySet(doc) \ OwnKeySet(mergePatch) :
         /\ Tag(OwnValue(doc, k)) \in {"obj", "arr"}
         /\ k \in OwnKeySet(merged)
         /\ OwnValue(merged, k) = OwnValue(doc, k)
    /\ \E k \in OwnKeySet(doc) \cap OwnKeySet(mergePatch) :
         /\ k \in OwnKeySet(merged)
         /\ OwnValue(merged, k) # OwnValue(doc, k)

\* C15: for an object patch and a target that is not an object, the result
\* is applyMergePatch({}, patch): nothing of the target survives.
C15_NonObjectTargetDiscarded ==
    (Merged /\ Tag(mergePatch) = "obj" /\ Tag(doc) # "obj")
    => merged = applyMergePatch(<<"obj", <<>> >>, mergePatch)

\* an object patch was applied to an array that has elements, and the
\* result has the patch's keys only
C15_Witness ==
    /\ Merged
    /\ Tag(mergePatch) = "obj" /\ Props(mergePatch) # <<>>
    /\ IsArray(doc) /\ Len(Elems(doc)) > 0
    /\ Tag(merged) = "obj"
    /\ OwnKeySet(merged) \subseteq OwnKeySet(mergePatch)
    /\ OwnKeySet(merged) # {}

\* C16: applyMergePatch has no side effect on its arguments: once the call
\* has returned, the target and the patch hold, at every depth, what they
\* held before it.
C16_ArgumentsUntouched ==
    Merged => docAfter = doc /\ patchAfter = mergePatch

\* the call merged an object of the patch into an object of the target and
\* deleted a key of it, one level down, and the target and the patch read
\* as before
C16_Witness ==
    /\ C13_WitnessNested
    /\ merged # doc
    /\ docAfter = doc
    /\ patchAfter = mergePatch

(***************************************************************************)
(* compareJson's claims on arrays, objects, the root and the empty diff.   *)
(***************************************************************************)
RECURSIVE EntriesByIndex(_, _, _)
\* what a positional diff of the arrays a and b gives from index i on: per
\* index, the diff of the two elements, or one added, or one removed entry
EntriesByIndex(a, b, i) ==
    LET lenA == Len(Elems(a))
        lenB == Len(Elems(b))
        at == "[" \o ToString(i) \o "]"
    IN  IF i >= lenA /\ i >= lenB THEN <<>>
        ELSE (IF i >= lenA
              THEN <<[path |-> at, type |-> "added", newValue |-> Elems(b)[i + 1]]>>
              ELSE IF i >= lenB
              THEN <<[path |-> at, type |-> "removed", oldValue |-> Elems(a)[i + 1]]>>
              ELSE compareJson(Elems(a)[i + 1], Elems(b)[i + 1], at))
             \o EntriesByIndex(a, b, i + 1)

\* the two arrays are compared index by index
Positional ==
    results = EntriesByIndex(leftParsed, rightParsed, 0)

\* the sequence s without its element at index k (from 0)
Without(s, k) == SubSeq(s, 1, k) \o SubSeq(s, k + 2, Len(s))

\* the indices (from 0) of the elements in the middle of the longer array,
\* neither first nor last, whose deletion from it gives the shorter one
MiddleShifts(a, b) ==
    LET long == IF Len(Elems(a)) > Len(Elems(b)) THEN Elems(a) ELSE Elems(b)
        short == IF Len(Elems(a)) > Len(Elems(b)) THEN Elems(b) ELSE Elems(a)
    IN  {k \in 1..(Len(long) - 2) : Without(long, k) = short}

IndexPath(i) == "[" \o ToString(i) \o "]"

\* C17 as stated: the diff of two arrays is positional, and an element
\* inserted or deleted in the middle is reported as entries at all later
\* shared indices, never as a single insertion or deletion.
C17_ArrayDiffPositional_Original ==
    (Compared /\ Tag(leftParsed) = "arr" /\ Tag(rightParsed) = "arr")
    => /\ Positional
       /\ \A k \in MiddleShifts(leftParsed, rightParsed) :
            /\ Len(results) > 1
            /\ \A i \in k..(Len(Elems(leftParsed)) - 1) :
                 i < Len(Elems(rightParsed))
                 => \E j \in 1..Len(results) :
                      /\ results[j].path = IndexPath(i)
                      /\ results[j].type = "changed"

\* C17, amended: the diff of two arrays is positional: in ascending order
\* of the index i, the entries of diff(a[i], b[i]) where both arrays have
\* i, one Added entry with b[i] where only b has it, one Removed entry with
\* a[i] where only a has it.  An insertion or deletion is therefore never
\* reported at a shared index: an entry for a shared index itself is a
\* Changed entry, and the Added and Removed entries are at the indices only
\* one array has.
C17_ArrayDiffPositional ==
    (Compared /\ Tag(leftParsed) = "arr" /\ Tag(rightParsed) = "arr")
    => /\ Positional
       /\ \A j \in 1..Len(results) :
            \A i \in 0..(Len(Elems(leftParsed)) - 1) :
               (i < Len(Elems(rightParsed)) /\ results[j].path = IndexPath(i))
               => results[j].type = "changed"

\* the middle one of three elements was deleted, [1,1,2] against [1,2]:
\* reported as a change at index 1 and a removal at index 2
C17_WitnessMiddle ==
    /\ Compared
    /\ Tag(leftParsed) = "arr" /\ Tag(rightParsed) = "arr"
    /\ MiddleShifts(leftParsed, rightParsed) = {1}
    /\ Len(results) = 2
    /\ results[1].type = "changed" /\ results[1].path = "[1]"
    /\ results[2].type = "removed" /\ results[2].path = "[2]"
    /\ results[2].oldValue = Elems(leftParsed)[3]

\* the first of two elements was deleted: reported as a change at index 0
\* and a removal at index 1
C17_WitnessDeletion ==
    /\ Compared
    /\ Tag(leftParsed) = "arr" /\ Tag(rightParsed) = "arr"
    /\ Len(Elems(leftParsed)) = 2
    /\ rightParsed = <<"arr", Tail(Elems(leftParsed))>>
    /\ Len(results) = 2
    /\ results[1].type = "changed" /\ results[1].path = "[0]"
    /\ results[2].type = "removed" /\ results[2].path = "[1]"
    /\ results[2].oldValue = Elems(leftParsed)[2]

\* an element was put in front of another: a change at index 0 and an
\* addition at index 1
C17_WitnessInsertion ==
    /\ Compared
    /\ Tag(leftParsed) = "arr" /\ Tag(rightParsed) = "arr"
    /\ Len(Elems(rightParsed)) = 2
    /\ leftParsed = <<"arr", Tail(Elems(rightParsed))>>
    /\ Len(results) = 2
    /\ results[1].type = "changed" /\ results[1].path = "[0]"
    /\ results[2].type = "added" /\ results[2].path = "[1]"
    /\ results[2].newValue = Elems(rightParsed)[2]

\* the keys of a, then the keys only b has
UnionOfKeys(a, b) ==
    LET OnlyB(k) == k \notin OwnKeySet(a)
    IN  KeysOfProps(Props(a)) \o SelectSeq(KeysOfProps(Props(b)), OnlyB)

RECURSIVE EntriesByKey(_, _, _)
\* what a diff of the objects a and b by their own keys gives for the keys
\* listed: per key, one added, or one removed entry, or the diff of the two
\* values
EntriesByKey(a, b, keys) ==
    IF keys = <<>> THEN <<>>
    ELSE LET k == keys[1]
         IN  (IF k \notin OwnKeySet(a)
              THEN <<[path |-> k, type |-> "added", newValue |-> OwnValue(b, k)]>>
              ELSE IF k \notin OwnKeySet(b)
              THEN <<[path |-> k, type |-> "removed", oldValue |-> OwnValue(a, k)]>>
              ELSE compareJson(OwnValue(a, k), OwnValue(b, k), k))
             \o EntriesByKey(a, b, Tail(keys))

\* C18: the diff of two objects visits each key of the union of their keys
\* once, the keys of a first and then the keys only b has: one Added entry
\* for a key a does not have, one Removed entry for a key b does not have,
\* and for a key of both the entries of the diff of the two values, the key
\* appended to the path.
C18_ObjectDiffByKeys ==
    (Compared /\ Tag(leftParsed) = "obj" /\ Tag(rightParsed) = "obj")
    => results = EntriesByKey(leftParsed, rightParsed,
                              UnionOfKeys(leftParsed, rightParsed))

\* the one entry of a diff that is for the documents themselves
IsRootEntry(e) ==
    /\ e.type = "changed"
    /\ Field(e, "oldValue") = leftParsed
    /\ Field(e, "newValue") = rightParsed

C19_RootKeySamePath ==
    /\ Compared
    /\ Tag(leftParsed) = "obj" /\ Tag(rightParsed) = "obj"
    /\ Len(results) = 1
    /\ ~IsRootEntry(results[1])
    /\ results[1].path = "root"

\* C20: an empty diff means that the two documents are structurally equal.
C20_EmptyDiffMeansEqual ==
    (Compared /\ results = <<>>) => StructEq(leftParsed, rightParsed)

\* C21: no two entries of a diff have the same path: the path of an entry
\* identifies its location.
C21_PathsUnique ==
    Compared => \A i, j \in 1..Len(results) :
                   results[i].path = results[j].path => i = j

\* C22: applyMergePatch is idempotent in the patch: applying the patch to
\* the result of applying it gives a value structurally equal to that
\* result.
C22_MergeIdempotent ==
    mpc = "again" => StructEq(mergedAgain, merged)

\* a patch that sets a key and deletes another, one level down, was applied
\* to a target it changes, and then to the result
C22_Witness ==
    /\ mpc = "again"
    /\ Tag(mergePatch) = "obj" /\ Tag(doc) = "obj"
    /\ ~StructEq(merged, doc)
    /\ \E k \in OwnKeySet(mergePatch) : Tag(OwnValue(mergePatch, k)) # "null"
    /\ \E k \in OwnKeySet(mergePatch) \cap OwnKeySet(doc) :
         /\ Tag(OwnValue(mergePatch, k)) = "obj"
         /\ Tag(OwnValue(doc, k)) = "obj"
         /\ \E j \in OwnKeySet(OwnValue(mergePatch, k)) \cap OwnKeySet(OwnValue(doc, k)) :
              Tag(OwnValue(OwnValue(mergePatch, k), j)) = "null"
    /\ StructEq(mergedAgain, merged)

(***************************************************************************)
(* The Diff page as the user drives it: the two textareas, Compare, Clear  *)
(* and Load Sample, and the banner the component renders.                  *)
(***************************************************************************)
\* a text of white space only: truthy, and empty once trimmed
BlankText == <<"blank">>

\* the two texts of loadSample
SampleLeft ==
    JObj(<< <<"name", JStr("John")>>, <<"age", JNum(30)>>,
            <<"city", JStr("Seoul")>>,
            <<"hobbies", JArr(<<JStr("reading"), JStr("coding")>>)>> >>)

SampleRight ==
    JObj(<< <<"name", JStr("John")>>, <<"age", JNum(31)>>,
            <<"country", JStr("South Korea")>>,
            <<"hobbies", JArr(<<JStr("reading"), JStr("gaming"),
                               JStr("traveling")>>)>> >>)

\* what the user types into a textarea
PageTexts ==
    {EmptyText, BlankText, BadText, Text(JNum(1)), Text(JNum(2)),
     Text(JObj(<< <<"a", JNum(1)>> >>))}

\* !text.trim()
TrimsToEmpty(t) == t \in {EmptyText, BlankText}

\* a text as a condition of the JSX: '' is falsy, every other text truthy
TextTruthy(t) == t # EmptyText

PageInit ==
    /\ left = EmptyText
    /\ right = EmptyText
    /\ diffResults = <<>>
    /\ diffError = JNull
    /\ lastCompare = NoCompare
    /\ DiffIdle /\ MergeIdle /\ PatchIdle /\ AiIdle /\ WorkerIdle /\ RecentIdle

\* onChange of the left textarea
SetLeft ==
    /\ \E t \in PageTexts : left' = t
    /\ UNCHANGED <<right, diffResults, diffError, lastCompare>>
    /\ UNCHANGED <<diffVars, mergeVars, patchVars, aiVars, workerVars, recentVars>>

\* onChange of the right textarea
SetRight ==
    /\ \E t \in PageTexts : right' = t
    /\ UNCHANGED <<left, diffResults, diffError, lastCompare>>
    /\ UNCHANGED <<diffVars, mergeVars, patchVars, aiVars, workerVars, recentVars>>

\* the results and the error compare sets
CompareSets(l, r) ==
    IF TrimsToEmpty(l) \/ TrimsToEmpty(r)
    THEN [results |-> <<>>, error |-> JStr("Please enter JSON in both fields")]
    ELSE IF l = BadText \/ r = BadText
    THEN [results |-> <<>>, error |-> JStr("Invalid JSON")]
    ELSE [results |-> compareJson(Parsed(l), Parsed(r), ""), error |-> JNull]

compare ==
    /\ LET sets == CompareSets(left, right)
       IN  /\ diffResults' = sets.results
           /\ diffError' = sets.error
           /\ lastCompare' = [ran |-> TRUE, left |-> left, right |-> right,
                              empty |-> sets.error = JNull /\ sets.results = <<>>]
    /\ UNCHANGED <<left, right>>
    /\ UNCHANGED <<diffVars, mergeVars, patchVars, aiVars, workerVars, recentVars>>

DiffClearAll ==
    /\ left' = EmptyText
    /\ right' = EmptyText
    /\ diffResults' = <<>>
    /\ diffError' = JNull
    /\ UNCHANGED lastCompare
    /\ UNCHANGED <<diffVars, mergeVars, patchVars, aiVars, workerVars, recentVars>>

loadSample ==
    /\ left' = Text(SampleLeft)
    /\ right' = Text(SampleRight)
    /\ UNCHANGED <<diffResults, diffError, lastCompare>>
    /\ UNCHANGED <<diffVars, mergeVars, patchVars, aiVars, workerVars, recentVars>>

PageNext == SetLeft \/ SetRight \/ compare \/ DiffClearAll \/ loadSample

PageSpec == PageInit /\ [][PageNext]_vars

\* results.length === 0 && left && right && !error
BannerShown ==
    /\ Len(diffResults) = 0
    /\ TextTruthy(left)
    /\ TextTruthy(right)
    /\ diffError = JNull

\* C23: the banner 'No differences found' is shown only if the most recent
\* Compare was run on the left and right texts now entered and returned an
\* empty diff.
C23_BannerOnlyAfterEmptyCompare ==
    BannerShown => /\ lastCompare.ran
                   /\ lastCompare.left = left
                   /\ lastCompare.right = right
                   /\ lastCompare.empty

(***************************************************************************)
(* useLargeFile.processLargeJson and the JSON worker.  The hook and the    *)
(* worker run in two threads and talk through two queues of messages,      *)
(* delivered in the order posted.  A message carries no request id in the  *)
(* code; the field req of the model's messages is the number of the call   *)
(* the message stems from, which no handler reads.                         *)
(***************************************************************************)
\* the data of a call: JSON texts and a text that JSON.parse rejects
WorkerData == {BadText, Text(JNum(1)), Text(JObj(<< <<"a", JNum(1)>> >>))}

\* WorkerMessage['type'], as the pages pass it
WorkerTypes == {"minify", "format", "validate"}

\* JSON.stringify(parsed, null, indent) / JSON.stringify(parsed)
Stringify(parsed, indent) == [json |-> parsed, indent |-> indent]

\* the switch on type
ResultOf(type, data) ==
    IF type = "minify" THEN Stringify(Parsed(data), 0)
    ELSE Stringify(Parsed(data), 2)

ProgressMessage(req, n) == [type |-> "progress", progress |-> n, req |-> req]

\* mutant of CatchPosts: the catch block posts nothing
CatchPosts_nothing(req) == <<>>

\* what the catch block posts
CatchPosts(req) ==
    <<[type |-> "error", error |-> "Unexpected token", req |-> req]>>

\* what the try block posts, up to the end or to the JSON.parse that throws
TryPosts(m) ==
    IF m.data = BadText
    THEN [posts |-> <<ProgressMessage(m.req, 10)>>, threw |-> TRUE]
    ELSE [posts |-> <<ProgressMessage(m.req, 10), ProgressMessage(m.req, 50),
                      ProgressMessage(m.req, 90),
                      [type |-> "result", result |-> ResultOf(m.type, m.data),
                       stats |-> [inputSize |-> m.data,
                                  outputSize |-> ResultOf(m.type, m.data)],
                       req |-> m.req]>>,
          threw |-> FALSE]

\* all that self.onmessage posts for the message m, in order
WorkerPosts(m) ==
    IF TryPosts(m).threw THEN TryPosts(m).posts \o CatchPosts(m.req)
    ELSE TryPosts(m).posts

WorkerInit ==
    /\ promises = <<>>
    /\ onmessage = 0
    /\ hookState = "idle"
    /\ progress = 0
    /\ stats = JNull
    /\ toWorker = <<>>
    /\ toMain = <<>>
    /\ taken = 0
    /\ job = <<>>
    /\ posted = <<>>
    /\ DiffIdle /\ MergeIdle /\ PatchIdle /\ AiIdle /\ PageIdle /\ RecentIdle

\* processLargeJson(data, type): a new promise, the hook's cells reset,
\* worker.onmessage replaced by the closure of this call, the message posted
processLargeJson ==
    /\ Len(promises) < MaxCalls
    /\ \E data \in WorkerData, type \in WorkerTypes :
         /\ promises' = Append(promises, [data |-> data, type |-> type,
                                          state |-> "pending"])
         /\ toWorker' = Append(toWorker, [type |-> type, data |-> data,
                                          req |-> Len(promises) + 1])
    /\ onmessage' = Len(promises) + 1
    /\ hookState' = "processing"
    /\ progress' = 0
    /\ stats' = JNull
    /\ UNCHANGED <<toMain, taken, job, posted>>
    /\ UNCHANGED <<diffVars, mergeVars, patchVars, aiVars, pageVars, recentVars>>

\* the worker's event loop takes the next message: self.onmessage starts
WorkerTake ==
    /\ job = <<>>
    /\ toWorker # <<>>
    /\ job' = WorkerPosts(Head(toWorker))
    /\ toWorker' = Tail(toWorker)
    /\ taken' = taken + 1
    /\ UNCHANGED <<promises, onmessage, hookState, progress, stats, toMain, posted>>
    /\ UNCHANGED <<diffVars, mergeVars, patchVars, aiVars, pageVars, recentVars>>

\* self.postMessage: the next message of the running handler
WorkerPost ==
    /\ job # <<>>
    /\ toMain' = Append(toMain, Head(job))
    /\ posted' = Append(posted, Head(job))
    /\ job' = Tail(job)
    /\ UNCHANGED <<promises, onmessage, hookState, progress, stats, toWorker, taken>>
    /\ UNCHANGED <<diffVars, mergeVars, patchVars, aiVars, pageVars, recentVars>>

\* resolve or reject of the promise k: the first call settles it, a later
\* one does nothing
Settle(ps, k, how, with) ==
    IF ps[k].state # "pending" THEN ps
    ELSE [ps EXCEPT ![k] = [data |-> ps[k].data, type |-> ps[k].type,
                            state |-> how, with |-> with]]

\* the main thread delivers the next message of the worker to the closure
\* that is worker.onmessage now
Deliver ==
    /\ toMain # <<>>
    /\ onmessage # 0
    /\ LET response == Head(toMain)
       IN  CASE response.type = "progress" ->
                  /\ progress' = response.progress
                  /\ UNCHANGED <<promises, hookState, stats>>
             [] response.type = "result" ->
                  /\ hookState' = "done"
                  /\ progress' = 100
                  /\ stats' = response.stats
                  /\ promises' = Settle(promises, onmessage, "resolved",
                                        [result |-> response.result,
                                         req |-> response.req])
             [] response.type = "error" ->
                  /\ hookState' = "error"
                  /\ promises' = Settle(promises, onmessage, "rejected",
                                        [error |-> response.error,
                                         req |-> response.req])
                  /\ UNCHANGED <<progress, stats>>
    /\ toMain' = Tail(toMain)
    /\ UNCHANGED <<onmessage, toWorker, taken, job, posted>>
    /\ UNCHANGED <<diffVars, mergeVars, patchVars, aiVars, pageVars, recentVars>>

WorkerNext == processLargeJson \/ WorkerTake \/ WorkerPost \/ Deliver

WorkerSpec == WorkerInit /\ [][WorkerNext]_vars

\* the worker answers every message posted to it, and the main thread
\* delivers every answer
WorkerLiveSpec ==
    WorkerSpec /\ WF_vars(WorkerTake) /\ WF_vars(WorkerPost) /\ WF_vars(Deliver)

\* C24: a promise of processLargeJson settles with the result or the error
\* of its own request, also when a later call was made before it settled.
C24_OwnResult ==
    \A k \in 1..Len(promises) :
       promises[k].state # "pending" => promises[k].with.req = k

\* C25: every promise processLargeJson has returned eventually settles,
\* given that the worker answers every message.
C25_EveryPromiseSettles ==
    \A k \in 1..MaxCalls :
       (Len(promises) >= k)
       ~> (Len(promises) >= k /\ promises[k].state # "pending")

\* the places in the log of posted messages of the messages of request k
\* that are terminal, and of those that report progress
TerminalsOf(k) ==
    {i \in 1..Len(posted) :
        posted[i].req = k /\ posted[i].type \in {"result", "error"}}

ProgressOf(k) ==
    {i \in 1..Len(posted) : posted[i].req = k /\ posted[i].type = "progress"}

\* the worker's handler has returned from the message of request k
HandlerDone(k) == k < taken \/ (k = taken /\ job = <<>>)

\* C26: for each message it receives the worker posts exactly one terminal
\* message, 'result' or 'error'; every progress message of the request is
\* posted before it, and the progress values of a request are strictly
\* increasing, out of 10, 50 and 90.
C26_OneTerminalAfterProgress ==
    \A k \in 1..taken :
       /\ Cardinality(TerminalsOf(k)) <= 1
       /\ HandlerDone(k) => Cardinality(TerminalsOf(k)) = 1
       /\ \A i \in ProgressOf(k), j \in TerminalsOf(k) : i < j
       /\ \A i, j \in ProgressOf(k) :
             i < j => posted[i].progress < posted[j].progress
       /\ \A i \in ProgressOf(k) : posted[i].progress \in {10, 50, 90}

\* the worker has answered two messages, one with an error after its first
\* progress message and one with a result after all three
C26_Witness ==
    /\ taken = 2 /\ job = <<>>
    /\ \E k, l \in 1..2 :
         /\ Cardinality(ProgressOf(k)) = 1
         /\ \E i \in TerminalsOf(k) : posted[i].type = "error"
         /\ Cardinality(ProgressOf(l)) = 3
         /\ \E i \in TerminalsOf(l) : posted[i].type = "result"

(***************************************************************************)
(* useRecentTools: the effect that runs when location.pathname changes,    *)
(* on the list kept in localStorage under STORAGE_KEY.                     *)
(***************************************************************************)
MAX_RECENT == 5

\* the keys of toolNames
ToolPaths ==
    {"/formatter", "/validator", "/viewer", "/beautifier", "/minifier",
     "/to-typescript", "/to-csv", "/to-yaml", "/from-yaml", "/to-schema",
     "/json-query", "/diff", "/path-finder", "/ai-assistant", "/escape",
     "/to-xml", "/sorter", "/base64", "/flattener"}

\* toolNames[path]: the name of a tool's page, undefined for another path
toolNames(path) ==
    IF path \in ToolPaths THEN <<"str", "name of " \o path>> ELSE JUndefined

\* the pathnames the user navigates to: six tools, the home page, and a
\* path no route has
Pathnames ==
    {"/formatter", "/validator", "/viewer", "/diff", "/minifier", "/sorter",
     "/", "/no-such-page"}

\* what JSON.stringify(updated) stores
ItemOf(list) == [present |-> TRUE, list |-> list]

\* getRecentTools(): [] when nothing is stored, the list parsed otherwise
getRecentTools(item) == IF item.present THEN item.list ELSE <<>>

\* mutant of Filtered: the earlier entry of the path is kept
Filtered_nothing(recent, path) == recent

\* recent.filter(t => t.path !== path)
Filtered(recent, path) ==
    LET Other(t) == t.path # path IN SelectSeq(recent, Other)

\* [..].slice(0, MAX_RECENT)
Slice(list) ==
    IF Len(list) > MAX_RECENT THEN SubSeq(list, 1, MAX_RECENT) ELSE list

\* the list the effect stores for a path that has a name
Updated(recent, path, name, timestamp) ==
    Slice(<<[path |-> path, name |-> name, timestamp |-> timestamp]>>
          \o Filtered(recent, path))

RecentInit ==
    /\ stored = NoItem
    /\ now = 0
    /\ visited = <<>>
    /\ DiffIdle /\ MergeIdle /\ PatchIdle /\ AiIdle /\ PageIdle /\ WorkerIdle

\* a navigation to another pathname, and the effect of useRecentTools
Navigate ==
    /\ Len(visited) < MaxVisits
    /\ \E path \in Pathnames :
         /\ (visited # <<>> => path # visited[Len(visited)])
         /\ visited' = Append(visited, path)
         /\ LET name == toolNames(path)
            IN  IF ~Truthy(name) \/ path = "/"
                THEN stored' = stored
                ELSE stored' = ItemOf(Updated(getRecentTools(stored), path,
                                              name, now + 1))
    /\ now' = now + 1
    /\ UNCHANGED <<diffVars, mergeVars, patchVars, aiVars, pageVars, workerVars>>

RecentNext == Navigate

RecentSpec == RecentInit /\ [][RecentNext]_vars

\* the pathnames visited that are pages of a tool, in the order visited
ToolVisits ==
    LET IsTool(p) == p \in ToolPaths IN SelectSeq(visited, IsTool)

\* the stored list is short, has every path once, and is headed by the
\* tool visited last
RecentListInvariant ==
    LET list == getRecentTools(stored)
    IN  /\ Len(list) <= 5
        /\ \A i, j \in 1..Len(list) : list[i].path = list[j].path => i = j
        /\ IF ToolVisits = <<>> THEN list = <<>>
           ELSE /\ list # <<>>
                /\ list[1].path = ToolVisits[Len(ToolVisits)]

\* C27: from an empty store, after any sequence of navigations the stored
\* list has at most 5 entries and no two entries with the same path, and
\* its first entry is the most recently visited page that has a name in
\* toolNames; a visit of '/' or of an unknown path leaves the store as it is.
C27_RecentTools ==
    /\ []RecentListInvariant
    /\ [][(Navigate /\ visited'[Len(visited')] \notin ToolPaths)
            => stored' = stored]_vars

\* six tools were visited one after the other: five entries are stored, the
\* tool visited first is not among them
C27_Witness ==
    /\ Len(ToolVisits) = 6
    /\ \A i, j \in 1..6 : ToolVisits[i] = ToolVisits[j] => i = j
    /\ Len(getRecentTools(stored)) = 5
    /\ \A i \in 1..5 : getRecentTools(stored)[i].path # ToolVisits[1]
    /\ getRecentTools(stored)[1].path = ToolVisits[6]

\* a tool was visited again, after others, and then the home page: the tool
\* is stored once, at the head, with the time of its second visit
C27_WitnessRevisit ==
    /\ Len(visited) >= 4
    /\ visited[Len(visited)] = "/"
    /\ \E i \in 1..(Len(visited) - 3) : visited[i] = visited[Len(visited) - 1]
    /\ getRecentTools(stored)[1].path = visited[Len(visited) - 1]
    /\ getRecentTools(stored)[1].timestamp = Len(visited) - 1
    /\ Len(getRecentTools(stored)) >= 2

(***************************************************************************)
(* The AiAssistant page: saveApiKey, the onChange handlers, handleSubmit   *)
(* with handleGenerate, handleExplain and handleMockData, callOpenAI up to *)
(* its fetch, the rest of callOpenAI and of the handler once the response  *)
(* is there, and clearAll.                                                 *)
(***************************************************************************)
ApiKeys == {"", "sk-user-key"}
Prompts == {"", "a list of users"}
\* what the user enters in the JSON textarea of the page
JsonInputs == {"", "{\"a\":1}"}
Modes == {"generate", "explain", "mock"}

OpenAiUrl == "https://api.openai.com/v1/chat/completions"

\* the POST request of callOpenAI: the system prompt of the handler, and
\* the user message as a lead-in and the text appended to it
Request(key, handler, lead, text) ==
    [url |-> OpenAiUrl, authorization |-> key, system |-> handler,
     user |-> <<lead, text>>]

AiInit ==
    /\ apiKey \in ApiKeys
    /\ prompt = ""
    /\ aiJson = ""
    /\ mode = "generate"
    /\ aiOutput = ""
    /\ aiError = JNull
    /\ loading = FALSE
    /\ pending = <<>>
    /\ wire = <<>>
    /\ DiffIdle /\ MergeIdle /\ PatchIdle /\ PageIdle /\ WorkerIdle /\ RecentIdle

saveApiKey ==
    /\ \E k \in ApiKeys : apiKey' = k
    /\ UNCHANGED <<prompt, aiJson, mode, aiOutput, aiError, loading, pending, wire>>
    /\ UNCHANGED <<diffVars, mergeVars, patchVars, pageVars, workerVars, recentVars>>

SetPrompt ==
    /\ \E t \in Prompts : prompt' = t
    /\ UNCHANGED <<apiKey, aiJson, mode, aiOutput, aiError, loading, pending, wire>>
    /\ UNCHANGED <<diffVars, mergeVars, patchVars, pageVars, workerVars, recentVars>>

SetAiJsonInput ==
    /\ \E t \in JsonInputs : aiJson' = t
    /\ UNCHANGED <<apiKey, prompt, mode, aiOutput, aiError, loading, pending, wire>>
    /\ UNCHANGED <<diffVars, mergeVars, patchVars, pageVars, workerVars, recentVars>>

SetMode ==
    /\ \E m \in Modes : mode' = m
    /\ UNCHANGED <<apiKey, prompt, aiJson, aiOutput, aiError, loading, pending, wire>>
    /\ UNCHANGED <<diffVars, mergeVars, patchVars, pageVars, workerVars, recentVars>>

\* the submit button is not disabled
SubmitEnabled ==
    /\ ~loading
    /\ apiKey # ""
    /\ IF mode = "generate" THEN prompt # "" ELSE aiJson # ""

\* the user message the handler of the mode passes to callOpenAI
UserMessage ==
    CASE mode = "generate" -> <<"", prompt>>
      [] mode = "explain" -> <<"Explain this JSON:", aiJson>>
      [] OTHER -> <<"Generate mock data based on this structure:", aiJson>>

\* handleSubmit, the handler of the mode, and callOpenAI up to the fetch
handleSubmit ==
    /\ SubmitEnabled
    /\ Len(wire) < MaxRequests
    /\ loading' = TRUE
    /\ aiError' = JNull
    /\ wire' = Append(wire, Request(apiKey, mode, UserMessage[1], UserMessage[2]))
    /\ pending' = <<mode>>
    /\ UNCHANGED <<apiKey, prompt, aiJson, mode, aiOutput>>
    /\ UNCHANGED <<diffVars, mergeVars, patchVars, pageVars, workerVars, recentVars>>

\* the response arrives, with a content or an empty one: callOpenAI
\* returns it, and the handler sets the output when it is not empty
ResponseOk ==
    /\ pending # <<>>
    /\ \E content \in {"", "the model's answer"} :
           aiOutput' = IF content # "" THEN content ELSE aiOutput
    /\ loading' = FALSE
    /\ pending' = <<>>
    /\ UNCHANGED <<apiKey, prompt, aiJson, mode, aiError, wire>>
    /\ UNCHANGED <<diffVars, mergeVars, patchVars, pageVars, workerVars, recentVars>>

\* the response is not ok, or the fetch fails: callOpenAI sets the error
\* and returns null
ResponseError ==
    /\ pending # <<>>
    /\ aiError' = JStr("API error")
    /\ loading' = FALSE
    /\ pending' = <<>>
    /\ UNCHANGED <<apiKey, prompt, aiJson, mode, aiOutput, wire>>
    /\ UNCHANGED <<diffVars, mergeVars, patchVars, pageVars, workerVars, recentVars>>

AiClearAll ==
    /\ prompt' = ""
    /\ aiJson' = ""
    /\ aiOutput' = ""
    /\ aiError' = JNull
    /\ UNCHANGED <<apiKey, mode, loading, pending, wire>>
    /\ UNCHANGED <<diffVars, mergeVars, patchVars, pageVars, workerVars, recentVars>>

AiNext ==
    \/ saveApiKey \/ SetPrompt \/ SetAiJsonInput \/ SetMode
    \/ handleSubmit \/ ResponseOk \/ ResponseError \/ AiClearAll

AiSpec == AiInit /\ [][AiNext]_vars

\* C7: all JSON processing happens inside the browser: no operation sends
\* the JSON data the user entered to a server.
C7_JsonNeverLeavesBrowser ==
    \A i \in 1..Len(wire) : wire[i].user[2] \notin (JsonInputs \ {""})

====
